---- MODULE Spec2Model ----
(***************************************************************************)
(* A model of the multi-source tiled elevation engine of open-elevation:   *)
(* gdal_interfaces.py (GDALInterface, GDALTileInterface,                   *)
(* GDALPriorityTileInterface) and the start-up and facade code of          *)
(* server.py that drives it.                                               *)
(*                                                                         *)
(* Conventions.                                                            *)
(*  - A path is a sequence of path components: "data/north/n1.tif" is      *)
(*    <<"data", "north", "n1.tif">>, and <<>> is the empty path "" that    *)
(*    os.path.dirname yields above a relative top-level name.              *)
(*  - Python's None is the empty tuple; an optional integer n is <<n>>.    *)
(*  - A date string "YYYY-MM-DD" is the tuple of its dash-separated        *)
(*    numbers, <<2017, 3, 15>>; a tuple that strptime("%Y-%m-%d") would    *)
(*    reject (wrong number of parts, month 13, day 31 of a 30-day month)   *)
(*    is a malformed date string.                                          *)
(*  - A dict is a function whose DOMAIN is its key set.                    *)
(***************************************************************************)
EXTENDS Integers, Sequences, FiniteSets, TLC

VARIABLES
    metadata_files,   \* the file system: per directory, its metadata.json
    tile_files,       \* the file system: per .tif, [readable, cell]
    summary_file,     \* the file system: summary.json, "absent", "present"
                      \* or "corrupt" (present, not parsable as JSON)
    today,            \* the clock: datetime.today() as <<y, m, d>>
    always_rebuild,   \* configuration: ALWAYS_REBUILD_SUMMARY
    phase,            \* position of the process: "new", "constructed",
                      \* "serving", "answered", "failed"; "annotate",
                      \* "annotated", "cache" and "sample" in the
                      \* specifications of single operations
    mode,             \* which interface server.py built: "priority" / "nearest"
    source_info,      \* GDALPriorityTileInterface.source_info
    all_coords,       \* the tile records, which are the index payloads
    index_order,      \* the order in which the index hands its entries back
    cache,            \* cached_open_interfaces, ..._dict and the open datasets
    requested,        \* history of SpecCache: the distinct paths its calls of
                      \* _open_gdal_interface returned a handle for, the
                      \* most recently requested last
    query,            \* the arguments of the last lookup
    candidates,       \* what the index returned to it, in the order returned
    adjusted,         \* its sorted (priority, resolution, candidate) list
    trace,            \* the opens and samples it made, in order
    result,           \* how it ended: Return(elevation) or Raise(error)
    response,         \* what get_elevation made of it
    previous,         \* <<result of the lookup before it>> when that lookup
                      \* had the same arguments, <<>> otherwise
    threads,          \* SpecRace: per thread of the worker, its position in
                      \* _open_gdal_interface and its local variables
    handles,          \* SpecRace: the GDALInterface objects whose dataset is
                      \* open, in the cache or not
    meta_query,       \* last argument of _effective_metadata_for_file, or <<>>
    meta_result,      \* what that call returned
    prio_meta,        \* effective record handed to the priority annotation
    prio_result       \* what the annotation (lines 392-397) produced for it

envVars == <<metadata_files, tile_files, today, always_rebuild>>
callVars == <<query, candidates, adjusted, trace, result, response, previous>>
metaVars == <<meta_query, meta_result>>
prioVars == <<prio_meta, prio_result>>
raceVars == <<threads, handles>>

vars == <<envVars, summary_file, phase, mode, source_info, all_coords,
          index_order, cache, requested,
          callVars, metaVars, prioVars, raceVars>>

None == <<>>

(***************************************************************************)
(* Paths (os.path)                                                         *)
(***************************************************************************)
dirname(p) == IF Len(p) = 0 THEN p ELSE SubSeq(p, 1, Len(p) - 1)

basename(p) == IF Len(p) = 0 THEN "" ELSE p[Len(p)]

tiles_folder == <<"data">>

\* The directories os.walk(tiles_folder) visits that may own a metadata.json.
MetaDirs ==
    { <<"data">>, <<"data", "north">>, <<"data", "north", "arctic">>,
      <<"data", "south">> }

(***************************************************************************)
(* Dates (datetime.strptime, datetime.today, timedelta.days)               *)
(***************************************************************************)
IsLeap(y) == (y % 4 = 0 /\ y % 100 # 0) \/ y % 400 = 0

DaysInMonth(y, m) ==
    IF m = 2 THEN (IF IsLeap(y) THEN 29 ELSE 28)
    ELSE IF m \in {4, 6, 9, 11} THEN 30 ELSE 31

\* datetime.strptime(s, "%Y-%m-%d") succeeds
strptime_ok(s) ==
    /\ Len(s) = 3
    /\ s[1] \in 1..9999
    /\ s[2] \in 1..12
    /\ s[3] \in 1..DaysInMonth(s[1], s[2])

\* proleptic Gregorian day number of a valid date
DayNumber(s) ==
    LET y   == IF s[2] <= 2 THEN s[1] - 1 ELSE s[1]
        mp  == IF s[2] > 2 THEN s[2] - 3 ELSE s[2] + 9
        era == y \div 400
        yoe == y - era * 400
        doy == (153 * mp + 2) \div 5 + s[3] - 1
        doe == yoe * 365 + yoe \div 4 - yoe \div 100 + doy
    IN  era * 146097 + doe

\* round(delta_days / 30.4375): 30.4375 = 487/16, and no integer number of
\* days lies on a rounding tie, so round-half-even is floor(x + 1/2).
RoundMonths(delta_days) == (32 * delta_days + 487) \div 974

\* age_in_months(date_str): <<months>>, or None when strptime raises
\* ValueError (malformed string) or TypeError (not a string).
age_in_months(date_str, now) ==
    IF date_str = None THEN None
    ELSE IF ~strptime_ok(date_str) THEN None
    ELSE <<RoundMonths(DayNumber(now) - DayNumber(date_str))>>

(***************************************************************************)
(* Dicts                                                                   *)
(***************************************************************************)
\* d.get(k): the value, or None
Get(d, k) == IF k \in DOMAIN d THEN d[k] ELSE None

\* d.get(k, default)
GetOr(d, k, default) == IF k \in DOMAIN d THEN d[k] ELSE default

\* d.update(m)
Update(d, m) ==
    [k \in DOMAIN d \cup DOMAIN m |-> IF k \in DOMAIN m THEN m[k] ELSE d[k]]

\* d.setdefault(k, v)
SetDefault(d, k, v) == IF k \in DOMAIN d THEN d ELSE Update(d, k :> v)

\* d[k] = v
SetItem(d, k, v) == Update(d, k :> v)

(***************************************************************************)
(* Metadata registry (GDALPriorityTileInterface._load_metadata_registry)   *)
(***************************************************************************)
DefaultPriority == 9999
DefaultResolution == 2000

defaults ==
    [priority |-> DefaultPriority, name |-> "default",
     resolution |-> DefaultResolution]

\* lines 251-258: the parsed metadata.json of every directory that has one;
\* a file that fails to parse is reported and left out.
RawRegistry(files) ==
    [d \in {x \in DOMAIN files : files[x].kind = "ok"} |-> files[d].json]

\* lines 265-275: the raw records from dirpath up to tiles_folder, nearest
\* first.
RECURSIVE Overrides(_, _)
Overrides(cursor, registry) ==
    LET here == IF cursor \in DOMAIN registry THEN <<registry[cursor]>>
                ELSE <<>>
    IN  IF cursor = tiles_folder \/ dirname(cursor) = cursor THEN here
        ELSE here \o Overrides(dirname(cursor), registry)

Reversed(s) == [i \in 1..Len(s) |-> s[Len(s) + 1 - i]]

\* lines 278-279: for meta in reversed(overrides): effective.update(meta)
RECURSIVE ApplyAll(_, _)
ApplyAll(effective, metas) ==
    IF metas = <<>> THEN effective
    ELSE ApplyAll(Update(effective, Head(metas)), Tail(metas))

ApplyOverrides_NearestFirst(effective, overrides) ==
    ApplyAll(effective, overrides)

ApplyOverrides(effective, overrides) ==
    ApplyAll(effective, Reversed(overrides))

\* lines 262-289: the effective record of one directory of the registry
EffectiveFor(dirpath, registry) ==
    LET e0 == ApplyOverrides(defaults, Overrides(dirpath, registry))
        e1 == SetDefault(e0, "priority", defaults.priority)
        e2 == SetDefault(e1, "name",
                         IF dirpath # tiles_folder THEN basename(dirpath)
                         ELSE defaults.name)
        e3 == SetDefault(e2, "resolution", defaults.resolution)
        e4 == SetItem(e3, "date",
                      IF Get(e3, "date") # None THEN Get(e3, "date")
                      ELSE None)
        e5 == SetItem(e4, "dynamic_priority",
                      IF Get(e4, "dynamic_priority") # None
                      THEN Get(e4, "dynamic_priority") ELSE None)
    IN  e5

\* lines 260-293: source_info after _load_metadata_registry
load_metadata_registry(files) ==
    LET registry == RawRegistry(files)
    IN  [d \in DOMAIN registry \cup {tiles_folder} |->
            IF d \in DOMAIN registry THEN EffectiveFor(d, registry)
            ELSE defaults]

(***************************************************************************)
(* GDALPriorityTileInterface._effective_metadata_for_file                  *)
(***************************************************************************)
\* lines 304-313: the cursor the upward walk stops at
RECURSIVE WalkUp(_, _)
WalkUp(cursor, info) ==
    IF cursor = <<>> \/ cursor \in DOMAIN info THEN cursor
    ELSE IF dirname(cursor) = cursor THEN cursor
    ELSE WalkUp(dirname(cursor), info)

effective_metadata_for_file_NoWalk(filepath, info) ==
    LET cursor == dirname(filepath)
    IN  IF cursor # <<>> /\ cursor \in DOMAIN info THEN info[cursor]
        ELSE info[tiles_folder]

effective_metadata_for_file(filepath, info) ==
    LET cursor == WalkUp(dirname(filepath), info)
    IN  IF cursor # <<>> /\ cursor \in DOMAIN info THEN info[cursor]
        ELSE info[tiles_folder]

(***************************************************************************)
(* Priority annotation (lookup, lines 386-397, and                         *)
(* _calculate_dynamic_priority)                                            *)
(***************************************************************************)
DefaultAge == 360
ResolutionBase == 1000
AgeBase == 360
FallbackResolution == 3000

Return(v) == [kind |-> "return", value |-> v]
Raise(e) == [kind |-> "raise", value |-> 0, error |-> e]

\* lines 462-469: the age the formula uses
dataset_age_NoNoneCheck(eff_meta, now) ==
    IF Get(eff_meta, "date") # None
    THEN age_in_months(eff_meta.date, now)
    ELSE <<DefaultAge>>

dataset_age(eff_meta, now) ==
    IF Get(eff_meta, "date") # None
    THEN (IF age_in_months(eff_meta.date, now) = None THEN <<DefaultAge>>
          ELSE age_in_months(eff_meta.date, now))
    ELSE <<DefaultAge>>

\* line 471
DynamicFormula_AgeAdded(starting_priority, resolution, age, dynamic_priority) ==
    starting_priority - (ResolutionBase - resolution) + age - dynamic_priority

DynamicFormula(starting_priority, resolution, age, dynamic_priority) ==
    starting_priority - (ResolutionBase - resolution) - (AgeBase - age)
        - dynamic_priority

\* _calculate_dynamic_priority(tile_info, eff_meta): Return(priority), or
\* Raise when a subscript or the arithmetic of line 471 fails.
calculate_dynamic_priority(eff_meta, now) ==
    IF ~({"name", "priority"} \subseteq DOMAIN eff_meta) THEN Raise("KeyError")
    ELSE IF Get(eff_meta, "dynamic_priority") = None
    THEN Return(eff_meta.priority)
    ELSE IF "resolution" \notin DOMAIN eff_meta THEN Raise("KeyError")
    ELSE IF dataset_age(eff_meta, now) = None THEN Raise("TypeError")
    ELSE Return(DynamicFormula(eff_meta.priority, eff_meta.resolution,
                               dataset_age(eff_meta, now)[1],
                               eff_meta.dynamic_priority[1]))

\* lines 392-396: the final priority of one candidate
final_priority_AlwaysDynamic(eff_meta, now) ==
    IF Get(eff_meta, "dynamic_priority") # None
    THEN calculate_dynamic_priority(eff_meta, now)
    ELSE Return(DynamicFormula(eff_meta.priority, eff_meta.resolution,
                               dataset_age(eff_meta, now)[1], 0))

final_priority(eff_meta, now) ==
    IF Get(eff_meta, "dynamic_priority") # None
    THEN calculate_dynamic_priority(eff_meta, now)
    ELSE Return(GetOr(eff_meta, "priority", DefaultPriority))

\* line 397: the resolution the sort key carries
sort_resolution(eff_meta) == GetOr(eff_meta, "resolution", FallbackResolution)

(***************************************************************************)
(* Tiles.  Coordinates are integers in units of 0.0001 degree, the epsilon *)
(* of lookup; every tile is in WGS84 (TransformPoint is the identity) and  *)
(* has an unrotated geotransform.  The tiles lie against the northern edge *)
(* of the valid latitudes.                                                 *)
(***************************************************************************)
\* 90 and 180 degrees in units of 0.0001 degree
MaxLat == 90 * 10000
MaxLng == 180 * 10000
NO_DATA_VALUE == -9999
SEA_LEVEL == 0
epsilon == 1

G  == <<"data", "g.tif">>
N1 == <<"data", "north", "n1.tif">>
N2 == <<"data", "north", "n2.tif">>
S1 == <<"data", "south", "deep", "s1.tif">>

\* _all_files(): the .tif files in os.walk order
AllFiles == <<G, N1, N2, S1>>

Tiles == {AllFiles[i] : i \in 1..Len(AllFiles)}

\* GetGeoTransform() as (ulx, xres, uly, yres), RasterXSize, RasterYSize
GeoOf(file) ==
    IF file = G
    THEN [ulx |-> 0, xres |-> 10, uly |-> MaxLat, yres |-> -10,
          RasterXSize |-> 40, RasterYSize |-> 40]
    ELSE IF file = N1
    THEN [ulx |-> 0, xres |-> 10, uly |-> MaxLat, yres |-> -10,
          RasterXSize |-> 20, RasterYSize |-> 20]
    ELSE IF file = N2
    THEN [ulx |-> 100, xres |-> 10, uly |-> MaxLat, yres |-> -10,
          RasterXSize |-> 20, RasterYSize |-> 20]
    ELSE [ulx |-> 0, xres |-> 10, uly |-> MaxLat - 200, yres |-> -10,
          RasterXSize |-> 20, RasterYSize |-> 20]

\* get_corner_coords and lines 328-333: (lmin, lmax, lngmin, lngmax)
CoordsOf(file) ==
    LET gt  == GeoOf(file)
        lrx == gt.ulx + gt.RasterXSize * gt.xres
        lry == gt.uly + gt.RasterYSize * gt.yres
    IN  <<lry, gt.uly, gt.ulx, lrx>>

(***************************************************************************)
(* GDALInterface.lookup                                                    *)
(***************************************************************************)
\* int(a / b): truncation toward zero
TruncDiv(a, b) ==
    LET q == (IF a < 0 THEN -a ELSE a) \div (IF b < 0 THEN -b ELSE b)
    IN  IF (a < 0) = (b < 0) THEN q ELSE -q

no_data_values == {-32768, -9999, -99999, 32767, 65535}
UnrealisticLow == -10000
UnrealisticHigh == 90000

\* a mapping that knows the listed sentinels only
map_value_ListedOnly(v) ==
    IF v \in no_data_values THEN NO_DATA_VALUE
    ELSE IF v # -32768 THEN v ELSE SEA_LEVEL

\* lines 103-108: the value returned for band value v
map_value(v) ==
    IF v \in no_data_values \/ v < UnrealisticLow \/ v > UnrealisticHigh
    THEN NO_DATA_VALUE
    ELSE IF v # -32768 THEN v ELSE SEA_LEVEL

\* lines 73-112 on an interface whose dataset is open (is_open) and whose
\* band holds `cell` under every pixel; a closed interface (src is None)
\* raises inside the try and yields NO_DATA_VALUE.
gdal_lookup(file, is_open, cell, lat, lon) ==
    LET gt   == GeoOf(file)
        xpix == TruncDiv(lon - gt.ulx, gt.xres)
        ylin == TruncDiv(lat - gt.uly, gt.yres)
    IN  IF ~is_open THEN NO_DATA_VALUE
        ELSE IF xpix < 0 \/ ylin < 0 \/ xpix >= gt.RasterXSize
                \/ ylin >= gt.RasterYSize
        THEN NO_DATA_VALUE
        ELSE map_value(cell)

(***************************************************************************)
(* The cache of open interfaces (GDALTileInterface._open_gdal_interface).  *)
(* A cache c is [list, dict, open]: cached_open_interfaces,                *)
(* cached_open_interfaces_dict and the set of paths whose dataset is open. *)
(***************************************************************************)
open_interfaces_size == 2

EmptyCache == [list |-> <<>>, dict |-> <<>>, open |-> {}]

\* The threads of a worker that serves requests on two threads, and the
\* number of _open_gdal_interface calls each of them makes.
Threads == {1, 2}
MaxCalls == 2

\* the paths these calls ask for: one more than the cache holds
RacePaths == {G, N1, N2}

\* the GDALInterface object thread t creates in its n-th call, and None
Interface(path, t, n) == [tif_path |-> path, serial |-> <<t, n>>]
NoInterface == [tif_path |-> <<>>, serial |-> <<0, 0>>]

\* a thread outside _open_gdal_interface, after `calls` calls
Idle(calls) ==
    [pc |-> "idle", calls |-> calls, path |-> <<>>, interface |-> NoInterface,
     last_interface_path |-> <<>>, last_interface |-> NoInterface]

\* list.remove(x): drop the first occurrence
RECURSIVE Remove(_, _)
Remove(list, x) ==
    IF list = <<>> THEN <<>>
    ELSE IF Head(list) = x THEN Tail(list)
    ELSE <<Head(list)>> \o Remove(Tail(list), x)

Restrict(d, keys) == [k \in keys |-> d[k]]

\* a cache that evicts from the wrong end of the list: list.pop() for
\* list.pop(0)
open_gdal_interface_EvictNewest(path, c, files) ==
    IF path \in DOMAIN c.dict
    THEN [kind |-> "return",
          cache |-> [c EXCEPT !.list = Append(Remove(c.list, path), path)]]
    ELSE IF ~(path \in DOMAIN files /\ files[path].readable)
    THEN [kind |-> "raise", cache |-> c]
    ELSE LET list1 == Append(c.list, path)
             dict1 == Update(c.dict, path :> [tif_path |-> path])
             open1 == c.open \cup {path}
         IN  IF Len(list1) > open_interfaces_size
             THEN [kind |-> "return",
                   cache |-> [list |-> c.list,
                              dict |-> Restrict(dict1, DOMAIN dict1 \ {path}),
                              open |-> open1 \ {path}]]
             ELSE [kind |-> "return",
                   cache |-> [list |-> list1, dict |-> dict1, open |-> open1]]

\* a cache that enters the path in its list before it opens the raster
open_gdal_interface_InsertBeforeOpen(path, c, files) ==
    IF path \in DOMAIN c.dict
    THEN [kind |-> "return",
          cache |-> [c EXCEPT !.list = Append(Remove(c.list, path), path)]]
    ELSE IF ~(path \in DOMAIN files /\ files[path].readable)
    THEN [kind |-> "raise", cache |-> [c EXCEPT !.list = Append(c.list, path)]]
    ELSE LET list1 == Append(c.list, path)
             dict1 == Update(c.dict, path :> [tif_path |-> path])
             open1 == c.open \cup {path}
         IN  IF Len(list1) > open_interfaces_size
             THEN [kind |-> "return",
                   cache |-> [list |-> Tail(list1),
                              dict |-> Restrict(dict1,
                                          DOMAIN dict1 \ {Head(list1)}),
                              open |-> open1 \ {Head(list1)}]]
             ELSE [kind |-> "return",
                   cache |-> [list |-> list1, dict |-> dict1, open |-> open1]]

\* a cache whose hit moves the path by evicting it and adding it again,
\* which closes its dataset
open_gdal_interface_HitCloses(path, c, files) ==
    IF path \in DOMAIN c.dict
    THEN [kind |-> "return",
          cache |-> [c EXCEPT !.list = Append(Remove(c.list, path), path),
                              !.open = c.open \ {path}]]
    ELSE IF ~(path \in DOMAIN files /\ files[path].readable)
    THEN [kind |-> "raise", cache |-> c]
    ELSE LET list1 == Append(c.list, path)
             dict1 == Update(c.dict, path :> [tif_path |-> path])
             open1 == c.open \cup {path}
         IN  IF Len(list1) > open_interfaces_size
             THEN [kind |-> "return",
                   cache |-> [list |-> Tail(list1),
                              dict |-> Restrict(dict1,
                                          DOMAIN dict1 \ {Head(list1)}),
                              open |-> open1 \ {Head(list1)}]]
             ELSE [kind |-> "return",
                   cache |-> [list |-> list1, dict |-> dict1, open |-> open1]]

\* a cache whose hit leaves the list as it is (first in, first out)
open_gdal_interface_NoMoveOnHit(path, c, files) ==
    IF path \in DOMAIN c.dict
    THEN [kind |-> "return", cache |-> c]
    ELSE IF ~(path \in DOMAIN files /\ files[path].readable)
    THEN [kind |-> "raise", cache |-> c]
    ELSE LET list1 == Append(c.list, path)
             dict1 == Update(c.dict, path :> [tif_path |-> path])
             open1 == c.open \cup {path}
         IN  IF Len(list1) > open_interfaces_size
             THEN [kind |-> "return",
                   cache |-> [list |-> Tail(list1),
                              dict |-> Restrict(dict1,
                                          DOMAIN dict1 \ {Head(list1)}),
                              open |-> open1 \ {Head(list1)}]]
             ELSE [kind |-> "return",
                   cache |-> [list |-> list1, dict |-> dict1, open |-> open1]]

\* lines 135-153.  files[path].readable is whether gdal.Open succeeds.
open_gdal_interface(path, c, files) ==
    IF path \in DOMAIN c.dict
    THEN [kind |-> "return",
          cache |-> [c EXCEPT !.list = Append(Remove(c.list, path), path)]]
    ELSE IF ~(path \in DOMAIN files /\ files[path].readable)
    THEN [kind |-> "raise", cache |-> c]
    ELSE LET list1 == Append(c.list, path)
             dict1 == Update(c.dict, path :> [tif_path |-> path])
             open1 == c.open \cup {path}
         IN  IF Len(list1) > open_interfaces_size
             THEN [kind |-> "return",
                   cache |-> [list |-> Tail(list1),
                              dict |-> Restrict(dict1,
                                          DOMAIN dict1 \ {Head(list1)}),
                              open |-> open1 \ {Head(list1)}]]
             ELSE [kind |-> "return",
                   cache |-> [list |-> list1, dict |-> dict1, open |-> open1]]

(***************************************************************************)
(* Summary and spatial index                                               *)
(***************************************************************************)
\* one record of create_summary_json (lines 331-335)
SummaryRecord(file) ==
    [file |-> file, coords |-> CoordsOf(file), source_dir |-> dirname(file)]

\* _build_index, lines 221-227: index_id is set once and never advanced
build_index(records) ==
    [i \in 1..Len(records) |->
        Update(records[i], "index_id" :> 1)]

\* index.intersection(bbox): the payloads whose rectangle
\* (left, bottom, right, top) = (lmin, lngmin, lmax, lngmax) meets bbox
Intersecting(idx, bbox) ==
    {i \in 1..Len(idx) :
        /\ idx[i].coords[1] <= bbox[3] /\ bbox[1] <= idx[i].coords[2]
        /\ idx[i].coords[3] <= bbox[4] /\ bbox[2] <= idx[i].coords[4]}

\* the orders in which an index may hold the entries `ids`: the order of
\* its results is fixed once the index is built
Orderings(ids) ==
    {s \in [1..Cardinality(ids) -> ids] :
        \A a, b \in 1..Cardinality(ids) : a # b => s[a] # s[b]}

\* the entries `ids` in the order the index hands them back
RECURSIVE InIndexOrder(_, _)
InIndexOrder(order, ids) ==
    IF order = <<>> THEN <<>>
    ELSE IF Head(order) \in ids
    THEN <<Head(order)>> \o InIndexOrder(Tail(order), ids)
    ELSE InIndexOrder(Tail(order), ids)

(***************************************************************************)
(* GDALPriorityTileInterface.lookup                                        *)
(***************************************************************************)
\* an annotation that stores the final priority in the candidate's payload
annotate_IntoPayload(p, eff_meta, candidate) ==
    [p |-> p, r |-> sort_resolution(eff_meta),
     candidate |-> Update(candidate, "priority" :> p)]

\* line 397: the per-query triple; the candidate goes in as it came
annotate(p, eff_meta, candidate) ==
    [p |-> p, r |-> sort_resolution(eff_meta), candidate |-> candidate]

\* The index payloads after a lookup.  The lookup holds its candidates'
\* payloads by reference (candidate.object), so whatever it did to a
\* candidate in its adjusted list is what the payload of that tile is now.
payloads_after(records, adj_list) ==
    [i \in 1..Len(records) |->
        IF \E j \in 1..Len(adj_list) :
              adj_list[j].candidate.file = records[i].file
        THEN (CHOOSE c \in {adj_list[j].candidate : j \in 1..Len(adj_list)} :
                c.file = records[i].file)
        ELSE records[i]]

\* lines 387-397: the (final_priority, resolution, candidate) triples, or
\* "raise" when a priority computation raises
RECURSIVE Adjust(_, _, _)
Adjust(cands, info, now) ==
    IF cands = <<>> THEN [kind |-> "return", adjusted |-> <<>>]
    ELSE LET eff_meta == effective_metadata_for_file(Head(cands).file, info)
             fp       == final_priority(eff_meta, now)
             rest     == Adjust(Tail(cands), info, now)
         IN  IF fp.kind = "raise" \/ rest.kind = "raise"
             THEN [kind |-> "raise", adjusted |-> <<>>]
             ELSE [kind |-> "return",
                   adjusted |-> <<annotate(fp.value, eff_meta, Head(cands))>>
                                \o rest.adjusted]

\* the sort key of line 400 compared as Python compares tuples
KeyLess(a, b) == a.p < b.p \/ (a.p = b.p /\ a.r < b.r)

\* x inserted behind every element whose key is not greater (stable)
RECURSIVE InsertStable(_, _)
InsertStable(sorted, x) ==
    IF sorted = <<>> THEN <<x>>
    ELSE IF KeyLess(x, Head(sorted)) THEN <<x>> \o sorted
    ELSE <<Head(sorted)>> \o InsertStable(Tail(sorted), x)

\* x inserted in front of the elements whose key is equal
RECURSIVE InsertBeforeEqual(_, _)
InsertBeforeEqual(sorted, x) ==
    IF sorted = <<>> THEN <<x>>
    ELSE IF ~KeyLess(Head(sorted), x) THEN <<x>> \o sorted
    ELSE <<Head(sorted)>> \o InsertBeforeEqual(Tail(sorted), x)

RECURSIVE sort_adjusted_Unstable(_)
sort_adjusted_Unstable(adj_list) ==
    IF adj_list = <<>> THEN <<>>
    ELSE InsertBeforeEqual(
             sort_adjusted_Unstable(SubSeq(adj_list, 1, Len(adj_list) - 1)),
             adj_list[Len(adj_list)])

\* the elements of adj_list inserted one by one, in their order
RECURSIVE InsertionSort(_)
InsertionSort(adj_list) ==
    IF adj_list = <<>> THEN <<>>
    ELSE InsertStable(InsertionSort(SubSeq(adj_list, 1, Len(adj_list) - 1)),
                      adj_list[Len(adj_list)])

\* line 400: adjusted.sort(key=lambda x: (x[0], x[1])), a stable sort
sort_adjusted(adj_list) == InsertionSort(adj_list)

OpenEvent(file, ok) ==
    [op |-> "open", file |-> file, ok |-> ok, elevation |-> NO_DATA_VALUE]
SampleEvent(file, elevation) ==
    [op |-> "sample", file |-> file, ok |-> TRUE, elevation |-> elevation]

\* the sample of an interface held by cache c
Sample(file, c, files, lat, lng) ==
    gdal_lookup(file, file \in c.open, files[file].cell, lat, lng)

\* lines 413-436 from position i of the sorted list on: [result, cache, trace]
RECURSIVE try_candidates_NoEarlyReturn(_, _, _, _, _, _, _)
try_candidates_NoEarlyReturn(adj_list, i, c, tr, files, lat, lng) ==
    IF i > Len(adj_list)
    THEN [result |-> Return(NO_DATA_VALUE), cache |-> c, trace |-> tr]
    ELSE LET file   == adj_list[i].candidate.file
             opened == open_gdal_interface(file, c, files)
             elev   == Sample(file, opened.cache, files, lat, lng)
             rest   == try_candidates_NoEarlyReturn(adj_list, i + 1,
                           opened.cache,
                           tr \o <<OpenEvent(file, TRUE),
                                      SampleEvent(file, elev)>>,
                           files, lat, lng)
         IN  IF opened.kind = "raise"
             THEN [result |-> Raise("OpenError"), cache |-> opened.cache,
                   trace |-> Append(tr, OpenEvent(file, FALSE))]
             ELSE IF elev # NO_DATA_VALUE /\ rest.result.kind = "return"
             THEN [rest EXCEPT !.result = Return(elev)]
             ELSE rest

RECURSIVE try_candidates(_, _, _, _, _, _, _)
try_candidates(adj_list, i, c, tr, files, lat, lng) ==
    IF i > Len(adj_list)
    THEN [result |-> Return(NO_DATA_VALUE), cache |-> c, trace |-> tr]
    ELSE LET file   == adj_list[i].candidate.file
             opened == open_gdal_interface(file, c, files)
             elev   == Sample(file, opened.cache, files, lat, lng)
         IN  IF opened.kind = "raise"
             THEN [result |-> Raise("OpenError"), cache |-> opened.cache,
                   trace |-> Append(tr, OpenEvent(file, FALSE))]
             ELSE IF elev # NO_DATA_VALUE
             THEN [result |-> Return(elev), cache |-> opened.cache,
                   trace |-> tr \o <<OpenEvent(file, TRUE),
                                        SampleEvent(file, elev)>>]
             ELSE try_candidates(adj_list, i + 1, opened.cache,
                      tr \o <<OpenEvent(file, TRUE),
                                 SampleEvent(file, elev)>>,
                      files, lat, lng)

\* lines 356-436, the body of the try: [result, cache, trace, adjusted]
priority_lookup_body(lat, lng, cands, c, files, info, now) ==
    IF cands = <<>>
    THEN [result |-> Return(NO_DATA_VALUE), cache |-> c, trace |-> <<>>,
          adjusted |-> <<>>]
    ELSE IF Len(cands) = 1
    THEN LET file   == cands[1].file
             opened == open_gdal_interface(file, c, files)
             elev   == Sample(file, opened.cache, files, lat, lng)
         IN  IF opened.kind = "raise"
             THEN [result |-> Raise("OpenError"), cache |-> opened.cache,
                   trace |-> <<OpenEvent(file, FALSE)>>, adjusted |-> <<>>]
             ELSE [result |-> Return(elev), cache |-> opened.cache,
                   trace |-> <<OpenEvent(file, TRUE), SampleEvent(file, elev)>>,
                   adjusted |-> <<>>]
    ELSE LET adj == Adjust(cands, info, now)
             srt == sort_adjusted(adj.adjusted)
             out == try_candidates(srt, 1, c, <<>>, files, lat, lng)
         IN  IF adj.kind = "raise"
             THEN [result |-> Raise("TypeError"), cache |-> c, trace |-> <<>>,
                   adjusted |-> <<>>]
             ELSE [result |-> out.result, cache |-> out.cache,
                   trace |-> out.trace, adjusted |-> srt]

\* lines 437-439: except Exception: return NO_DATA_VALUE
lookup_except(out) ==
    IF out.result.kind = "raise"
    THEN [out EXCEPT !.result = Return(NO_DATA_VALUE)]
    ELSE out

\* lines 352-439.  q is the argument pair: [numeric, lat, lng]; the values of
\* a pair that is not numeric (JSON strings of a POST body, server.py line
\* 289) fail the format specification of line 354, which is outside the try.
priority_lookup(q, cands, c, files, info, now) ==
    IF ~q.numeric
    THEN [result |-> Raise("ValueError"), cache |-> c, trace |-> <<>>,
          adjusted |-> <<>>]
    ELSE lookup_except(priority_lookup_body(q.lat, q.lng, cands, c, files,
                                            info, now))

(***************************************************************************)
(* GDALTileInterface.lookup (the nearest-tile variant)                     *)
(***************************************************************************)
\* squared distance from a point to the rectangle of an index entry
Dist2(e, lat, lng) ==
    LET dlat == IF lat < e.coords[1] THEN e.coords[1] - lat
                ELSE IF lat > e.coords[2] THEN lat - e.coords[2] ELSE 0
        dlng == IF lng < e.coords[3] THEN e.coords[3] - lng
                ELSE IF lng > e.coords[4] THEN lng - e.coords[4] ELSE 0
    IN  dlat * dlat + dlng * dlng

\* index.nearest((lat, lng), 1): the entries at the least distance
Nearest(idx, lat, lng) ==
    {i \in 1..Len(idx) :
        \A j \in 1..Len(idx) : Dist2(idx[i], lat, lng) <= Dist2(idx[j], lat, lng)}

\* lines 202-219; `nearest` is the list the index returned.  A pair that is
\* not numeric makes index.nearest raise inside the try.
tile_lookup(q, nearest, c, files) ==
    IF ~q.numeric
    THEN [result |-> Return(NO_DATA_VALUE), cache |-> c, trace |-> <<>>,
          adjusted |-> <<>>]
    ELSE IF nearest = <<>>
    THEN [result |-> Return(NO_DATA_VALUE), cache |-> c, trace |-> <<>>,
          adjusted |-> <<>>]
    ELSE LET file   == nearest[1].file
             opened == open_gdal_interface(file, c, files)
             elev   == Sample(file, opened.cache, files, q.lat, q.lng)
         IN  IF opened.kind = "raise"
             THEN [result |-> Return(NO_DATA_VALUE), cache |-> opened.cache,
                   trace |-> <<OpenEvent(file, FALSE)>>, adjusted |-> <<>>]
             ELSE [result |-> Return(elev), cache |-> opened.cache,
                   trace |-> <<OpenEvent(file, TRUE), SampleEvent(file, elev)>>,
                   adjusted |-> <<>>]

(***************************************************************************)
(* The file system the runs draw from                                      *)
(***************************************************************************)
NoFile == [kind |-> "none", json |-> <<>>]
BadJson == [kind |-> "bad", json |-> <<>>]
Parsed(r) == [kind |-> "ok", json |-> r]

\* metadata.json contents: the records of spec section 8 (scenarios 3, 4
\* and 6), an explicit null, an empty object and a lone date.
RawRecords ==
    { [priority |-> 1500, resolution |-> 100],
      [resolution |-> 32],
      [priority |-> 2000, resolution |-> 30, date |-> <<2006, 1, 24>>,
       dynamic_priority |-> <<10>>, name |-> "ALOS"],
      [priority |-> 3000, resolution |-> 250, date |-> <<2017, 13, 45>>,
       dynamic_priority |-> <<-5>>],
      [name |-> "global", dynamic_priority |-> None],
      [date |-> <<2017, 3, 15>>, dynamic_priority |-> <<0>>],
      <<>> }

FileChoices == {NoFile, BadJson} \cup {Parsed(r) : r \in RawRecords}

\* Tile paths handed to _effective_metadata_for_file: under each metadata
\* directory, under a directory that never has a metadata.json, and outside
\* the data folder (a path a summary.json written elsewhere can hold).
QueryFiles ==
    { <<"data", "g.tif">>, <<"data", "north", "n1.tif">>,
      <<"data", "north", "arctic", "a1.tif">>,
      <<"data", "south", "deep", "s1.tif">>, <<"other", "o1.tif">> }

\* The metadata the server runs are drawn from: no file at all (the
\* nearest-tile server), unparsable files only, and combinations that order
\* the root, north and south tiles every way, by priority, by resolution on
\* equal priority, and not at all.
MetadataOf(root, north, south) ==
    (<<"data">> :> root) @@ (<<"data", "north">> :> north)
    @@ (<<"data", "north", "arctic">> :> NoFile) @@ (<<"data", "south">> :> south)

EngineMetadata ==
    { MetadataOf(NoFile, NoFile, NoFile),
      MetadataOf(BadJson, NoFile, NoFile),
      MetadataOf(NoFile, Parsed([priority |-> 1500, resolution |-> 100]),
                 Parsed([priority |-> 3000, resolution |-> 250,
                         date |-> <<2017, 13, 45>>,
                         dynamic_priority |-> <<-5>>])),
      MetadataOf(Parsed([priority |-> 2000, resolution |-> 30,
                         date |-> <<2006, 1, 24>>,
                         dynamic_priority |-> <<10>>, name |-> "ALOS"]),
                 Parsed([name |-> "global", dynamic_priority |-> None]),
                 Parsed([priority |-> 1500, resolution |-> 100,
                         date |-> <<2017, 3>>])),
      MetadataOf(Parsed([priority |-> 1500, resolution |-> 100]),
                 Parsed([resolution |-> 32]),
                 Parsed([date |-> <<2017, 3, 15>>,
                         dynamic_priority |-> <<0>>])),
      MetadataOf(Parsed([priority |-> 1500, resolution |-> 100,
                         dynamic_priority |-> <<0>>]),
                 Parsed(<<>>), NoFile) }

\* The band value of a tile that has data (scenarios 1 and 2 of the
\* specification: 125 and 87).
ElevationOf(file) ==
    IF file = G THEN 125 ELSE IF file = N1 THEN 87
    ELSE IF file = N2 THEN 42 ELSE 7

Readable(cell) == [readable |-> TRUE, cell |-> cell]
Unreadable == [readable |-> FALSE, cell |-> NO_DATA_VALUE]

\* The root tile holds its elevation or a no-data band value; a north tile
\* holds its elevation or a no-data band value, and n1 may also be
\* impossible to open; the south tile holds its elevation or cannot be
\* opened.
TileStates ==
    { t \in [Tiles -> {Readable(125), Readable(87), Readable(42), Readable(7),
                       Readable(32767), Unreadable}] :
        /\ t[G] \in {Readable(ElevationOf(G)), Readable(32767)}
        /\ t[N1] \in {Readable(ElevationOf(N1)), Readable(32767), Unreadable}
        /\ t[N2] \in {Readable(ElevationOf(N2)), Readable(32767)}
        /\ t[S1] \in {Readable(ElevationOf(S1)), Unreadable} }

\* The points asked for: north of the valid latitudes and away from every
\* tile, on the root tile only, on two, on three tiles, on the edge shared
\* by a north and a south tile, and one epsilon north of the valid
\* latitudes, where the bounding box of the query touches the tiles.
Points ==
    { <<MaxLat + 100, 500>>, <<MaxLat - 150, 350>>, <<MaxLat - 150, 50>>,
      <<MaxLat - 150, 150>>, <<MaxLat - 300, 100>>, <<MaxLat - 200, 50>>,
      <<MaxLat + 1, 50>> }

Queries ==
    {[numeric |-> TRUE, lat |-> pt[1], lng |-> pt[2]] : pt \in Points}
    \cup {[numeric |-> FALSE, lat |-> 0, lng |-> 0]}

\* Band values: every listed sentinel, the values on both sides of the two
\* thresholds, and elevations below, at and above sea level.
CellValues ==
    no_data_values \cup
    {UnrealisticLow - 1, UnrealisticLow, UnrealisticHigh, UnrealisticHigh + 1,
     -430, 0, 125, 8848}

\* Points inside the root tile, half a pixel and a whole pixel north of it,
\* on its east edge, and inside, half a pixel west and a pixel and a half
\* west of tile n2.
SamplePoints ==
    { <<MaxLat - 150, 50>>, <<MaxLat + 5, 50>>, <<MaxLat + 10, 50>>,
      <<MaxLat - 150, 400>>, <<MaxLat - 150, 150>>, <<MaxLat - 150, 95>>,
      <<MaxLat - 150, 85>> }

SampleQueries ==
    {[numeric |-> TRUE, lat |-> pt[1], lng |-> pt[2]] : pt \in SamplePoints}

Today0 == <<2025, 12, 24>>

\* server.py lines 69-74: any metadata.json below DATA_FOLDER
check_for_priority_mode(files) == \E d \in DOMAIN files : files[d].kind # "none"

\* a facade that hands the engine's value through
get_elevation_PassThrough(q, out) ==
    IF out.kind = "raise"
    THEN [latitude |-> q.lat, longitude |-> q.lng, elevation |-> None,
          status |-> "error"]
    ELSE [latitude |-> q.lat, longitude |-> q.lng,
          elevation |-> <<out.value>>, status |-> "ok"]

\* server.py lines 94-127: the response get_elevation builds from the
\* outcome of interface.lookup(lat, lng)
get_elevation(q, out) ==
    IF out.kind = "raise"
    THEN [latitude |-> q.lat, longitude |-> q.lng, elevation |-> None,
          status |-> "error"]
    ELSE IF out.value = NO_DATA_VALUE
    THEN [latitude |-> q.lat, longitude |-> q.lng, elevation |-> None,
          status |-> "no_data"]
    ELSE [latitude |-> q.lat, longitude |-> q.lng,
          elevation |-> <<out.value>>, status |-> "ok"]

\* The orders of the index the runs draw from: insertion order, its
\* reverse, and one that hands n2 back before n1 and after the root tile,
\* so that every two tiles come back both ways round.
IndexOrders ==
    {o \in Orderings(1..Len(AllFiles)) :
        o \in {<<1, 2, 3, 4>>, <<4, 3, 2, 1>>, <<1, 3, 2, 4>>}}

(***************************************************************************)
(* Actions                                                                 *)
(***************************************************************************)
\* server.py lines 77-83 and __init__: build the interface; the priority
\* interface loads the metadata registry in its constructor.
Construct ==
    /\ phase = "new"
    /\ phase' = "constructed"
    /\ IF check_for_priority_mode(metadata_files)
       THEN /\ mode' = "priority"
            /\ source_info' = load_metadata_registry(metadata_files)
       ELSE /\ mode' = "nearest"
            /\ UNCHANGED source_info
    /\ UNCHANGED <<envVars, summary_file, all_coords, index_order, cache, callVars,
                   metaVars, prioVars, requested, raceVars>>

\* server.py lines 85-87 and read_summary_json: the summary written by an
\* earlier run lists every tile of the data folder; json.load raises on a
\* file that is not JSON, and nothing at module level catches it.
ReadSummaryJson ==
    /\ phase = "constructed"
    /\ summary_file # "absent" /\ ~always_rebuild
    /\ IF summary_file = "corrupt"
       THEN /\ phase' = "failed"
            /\ UNCHANGED <<all_coords, index_order>>
       ELSE /\ all_coords' = build_index([i \in 1..Len(AllFiles) |->
                                            SummaryRecord(AllFiles[i])])
            /\ index_order' \in IndexOrders
            /\ phase' = "serving"
    /\ UNCHANGED <<envVars, summary_file, mode, source_info, cache, callVars,
                   metaVars, prioVars, requested, raceVars>>

\* the opens of create_summary_json, lines 323-326, from file i on
RECURSIVE OpenAll(_, _, _)
OpenAll(i, c, files) ==
    IF i > Len(AllFiles) THEN [kind |-> "return", cache |-> c]
    ELSE LET opened == open_gdal_interface(AllFiles[i], c, files)
         IN  IF opened.kind = "raise" THEN opened
             ELSE OpenAll(i + 1, opened.cache, files)

\* server.py lines 88-90 and create_summary_json: every tile is opened
\* through the cache; a tile that cannot be opened ends the start-up.
CreateSummaryJson ==
    /\ phase = "constructed"
    /\ summary_file = "absent" \/ always_rebuild
    /\ LET opened == OpenAll(1, cache, tile_files)
       IN  /\ cache' = opened.cache
           /\ IF opened.kind = "raise"
              THEN /\ phase' = "failed"
                   /\ UNCHANGED <<summary_file, all_coords, index_order>>
              ELSE /\ phase' = "serving"
                   /\ summary_file' = "present"
                   /\ all_coords' = build_index([i \in 1..Len(AllFiles) |->
                                                   SummaryRecord(AllFiles[i])])
                   /\ index_order' \in IndexOrders
    /\ UNCHANGED <<envVars, mode, source_info, callVars, metaVars, prioVars, requested, raceVars>>

\* line 359
BBox(q) == <<q.lat - epsilon, q.lng - epsilon, q.lat + epsilon, q.lng + epsilon>>

Entries(order) == [i \in 1..Len(order) |-> all_coords[order[i]]]

\* index.intersection(bbox, objects=True) as a list (line 362)
Candidates(q) ==
    IF q.numeric
    THEN Entries(InIndexOrder(index_order, Intersecting(all_coords, BBox(q))))
    ELSE <<>>

\* list(index.nearest((lat, lng), 1, objects=True)) (line 205)
NearestList(q) ==
    IF q.numeric
    THEN Entries(InIndexOrder(index_order,
                              Nearest(all_coords, q.lat, q.lng)))
    ELSE <<>>

\* one call of get_elevation on the priority interface
PriorityLookup ==
    /\ phase \in {"serving", "answered"}
    /\ mode = "priority"
    /\ \E q \in Queries :
         LET out == priority_lookup(q, Candidates(q), cache, tile_files,
                                    source_info, today)
         IN  /\ query' = q
             /\ candidates' = Candidates(q)
             /\ adjusted' = out.adjusted
             /\ trace' = out.trace
             /\ result' = out.result
             /\ response' = get_elevation(q, out.result)
             /\ previous' = IF phase = "answered" /\ query = q
                            THEN <<result>> ELSE <<>>
             /\ cache' = out.cache
             /\ all_coords' = payloads_after(all_coords, out.adjusted)
    /\ phase' = "answered"
    /\ UNCHANGED <<envVars, summary_file, mode, source_info, index_order,
                   metaVars, prioVars, requested, raceVars>>

\* one call of get_elevation on the nearest-tile interface
TileLookup ==
    /\ phase \in {"serving", "answered"}
    /\ mode = "nearest"
    /\ \E q \in Queries :
         LET out == tile_lookup(q, NearestList(q), cache, tile_files)
         IN  /\ query' = q
             /\ candidates' = NearestList(q)
             /\ adjusted' = out.adjusted
             /\ trace' = out.trace
             /\ result' = out.result
             /\ response' = get_elevation(q, out.result)
             /\ previous' = IF phase = "answered" /\ query = q
                            THEN <<result>> ELSE <<>>
             /\ cache' = out.cache
    /\ phase' = "answered"
    /\ UNCHANGED <<envVars, summary_file, mode, source_info, all_coords,
                   index_order, metaVars, prioVars, requested, raceVars>>

\* one call of _effective_metadata_for_file
MetadataFor ==
    /\ phase = "constructed"
    /\ mode = "priority"
    /\ \E f \in QueryFiles :
         /\ meta_query' = f
         /\ meta_result' = effective_metadata_for_file(f, source_info)
    /\ UNCHANGED <<envVars, summary_file, phase, mode, source_info,
                   all_coords, index_order, cache, callVars, prioVars, requested, raceVars>>

\* lines 390-397 for one candidate whose effective record is prio_meta
Annotate ==
    /\ phase = "annotate"
    /\ phase' = "annotated"
    /\ prio_result' = [p |-> final_priority(prio_meta, today),
                       r |-> sort_resolution(prio_meta)]
    /\ UNCHANGED <<envVars, summary_file, mode, source_info, all_coords, index_order,
                   cache, callVars, metaVars, prio_meta, requested, raceVars>>

\* one call of _open_gdal_interface(path)
OpenGdalInterface ==
    /\ phase = "cache"
    /\ \E path \in Tiles :
         LET opened == open_gdal_interface(path, cache, tile_files)
         IN  /\ cache' = opened.cache
             /\ trace' = <<OpenEvent(path, opened.kind = "return")>>
             /\ requested' = IF opened.kind = "return"
                             THEN Append(Remove(requested, path), path)
                             ELSE requested
    /\ UNCHANGED <<envVars, summary_file, phase, mode, source_info,
                   all_coords, index_order, query, candidates, adjusted,
                   result, response, previous, metaVars, prioVars, raceVars>>

\* one call of GDALInterface.lookup(lat, lon) on the interface of a tile,
\* obtained through the cache
InterfaceLookup ==
    /\ phase = "sample"
    /\ \E file \in Tiles, q \in SampleQueries :
         LET opened == open_gdal_interface(file, cache, tile_files)
             elev   == Sample(file, opened.cache, tile_files, q.lat, q.lng)
         IN  /\ opened.kind = "return"
             /\ cache' = opened.cache
             /\ query' = q
             /\ trace' = <<OpenEvent(file, TRUE), SampleEvent(file, elev)>>
             /\ result' = Return(elev)
    /\ UNCHANGED <<envVars, summary_file, phase, mode, source_info,
                   all_coords, index_order, requested, candidates, adjusted,
                   response, previous, metaVars, prioVars, raceVars>>

(***************************************************************************)
(* _open_gdal_interface statement by statement, as thread t of a worker    *)
(* runs it.  Nothing in the code guards the cache, so a thread may be      *)
(* suspended between any two statements.  A call that raises leaves the    *)
(* cache as the statements before the raise made it.                       *)
(***************************************************************************)
raceFrame ==
    UNCHANGED <<envVars, summary_file, phase, mode, source_info, all_coords,
                index_order, requested, callVars, metaVars, prioVars>>

At(t, pc) == phase = "race" /\ threads[t].pc = pc

Goto(t, pc) == threads' = [threads EXCEPT ![t].pc = pc]

\* the call ends, by return or by an exception
Leave(t) == threads' = [threads EXCEPT ![t] = Idle(threads[t].calls + 1)]

InList(list, x) == \E i \in 1..Len(list) : list[i] = x

\* a lookup calls self._open_gdal_interface(path)
Call(t) ==
    /\ At(t, "idle")
    /\ threads[t].calls < MaxCalls
    /\ \E path \in RacePaths :
         threads' = [threads EXCEPT ![t].pc = "test", ![t].path = path]
    /\ UNCHANGED <<cache, handles>>
    /\ raceFrame

\* line 136: if path in self.cached_open_interfaces_dict
TestCached(t) ==
    /\ At(t, "test")
    /\ IF threads[t].path \in DOMAIN cache.dict
       THEN Goto(t, "hit_get") ELSE Goto(t, "open")
    /\ UNCHANGED <<cache, handles>>
    /\ raceFrame

\* line 137: interface = self.cached_open_interfaces_dict[path]
HitGet(t) ==
    /\ At(t, "hit_get")
    /\ IF threads[t].path \in DOMAIN cache.dict
       THEN threads' = [threads EXCEPT
                          ![t].pc = "hit_remove",
                          ![t].interface = cache.dict[threads[t].path]]
       ELSE Leave(t)
    /\ UNCHANGED <<cache, handles>>
    /\ raceFrame

\* line 138: self.cached_open_interfaces.remove(path)
HitRemove(t) ==
    /\ At(t, "hit_remove")
    /\ IF InList(cache.list, threads[t].path)
       THEN /\ cache' = [cache EXCEPT
                           !.list = Remove(cache.list, threads[t].path)]
            /\ Goto(t, "hit_append")
       ELSE /\ Leave(t)
            /\ UNCHANGED cache
    /\ UNCHANGED handles
    /\ raceFrame

\* lines 139-140: self.cached_open_interfaces += [path]; return interface
HitAppend(t) ==
    /\ At(t, "hit_append")
    /\ cache' = [cache EXCEPT !.list = Append(cache.list, threads[t].path)]
    /\ Leave(t)
    /\ UNCHANGED handles
    /\ raceFrame

\* line 142: interface = GDALInterface(path)
MissOpen(t) ==
    /\ At(t, "open")
    /\ IF tile_files[threads[t].path].readable
       THEN LET i == Interface(threads[t].path, t, threads[t].calls + 1)
            IN  /\ threads' = [threads EXCEPT ![t].pc = "miss_append",
                                              ![t].interface = i]
                /\ handles' = handles \cup {i}
       ELSE /\ Leave(t)
            /\ UNCHANGED handles
    /\ UNCHANGED cache
    /\ raceFrame

\* line 143: self.cached_open_interfaces += [path]
MissAppend(t) ==
    /\ At(t, "miss_append")
    /\ cache' = [cache EXCEPT !.list = Append(cache.list, threads[t].path)]
    /\ Goto(t, "miss_set")
    /\ UNCHANGED handles
    /\ raceFrame

\* line 144: self.cached_open_interfaces_dict[path] = interface
MissSet(t) ==
    /\ At(t, "miss_set")
    /\ cache' = [cache EXCEPT
                   !.dict = Update(cache.dict,
                                   threads[t].path :> threads[t].interface)]
    /\ Goto(t, "miss_len")
    /\ UNCHANGED handles
    /\ raceFrame

\* line 146: if len(self.cached_open_interfaces) > self.open_interfaces_size;
\* line 153 when it is not
MissLen(t) ==
    /\ At(t, "miss_len")
    /\ IF Len(cache.list) > open_interfaces_size
       THEN Goto(t, "evict_pop") ELSE Leave(t)
    /\ UNCHANGED <<cache, handles>>
    /\ raceFrame

\* line 147: last_interface_path = self.cached_open_interfaces.pop(0)
EvictPop(t) ==
    /\ At(t, "evict_pop")
    /\ IF cache.list # <<>>
       THEN /\ threads' = [threads EXCEPT
                             ![t].pc = "evict_get",
                             ![t].last_interface_path = Head(cache.list)]
            /\ cache' = [cache EXCEPT !.list = Tail(cache.list)]
       ELSE /\ Leave(t)
            /\ UNCHANGED cache
    /\ UNCHANGED handles
    /\ raceFrame

\* line 148: last_interface = self.cached_open_interfaces_dict[...]
EvictGet(t) ==
    /\ At(t, "evict_get")
    /\ IF threads[t].last_interface_path \in DOMAIN cache.dict
       THEN threads' = [threads EXCEPT
                          ![t].pc = "evict_close",
                          ![t].last_interface =
                              cache.dict[threads[t].last_interface_path]]
       ELSE Leave(t)
    /\ UNCHANGED <<cache, handles>>
    /\ raceFrame

\* line 149: last_interface.close()
EvictClose(t) ==
    /\ At(t, "evict_close")
    /\ IF threads[t].last_interface # NoInterface
       THEN /\ handles' = handles \ {threads[t].last_interface}
            /\ Goto(t, "evict_none")
       ELSE /\ Leave(t)
            /\ UNCHANGED handles
    /\ UNCHANGED cache
    /\ raceFrame

\* line 150: self.cached_open_interfaces_dict[last_interface_path] = None
EvictNone(t) ==
    /\ At(t, "evict_none")
    /\ cache' = [cache EXCEPT
                   !.dict = Update(cache.dict,
                                   threads[t].last_interface_path
                                     :> NoInterface)]
    /\ Goto(t, "evict_del")
    /\ UNCHANGED handles
    /\ raceFrame

\* line 151: del self.cached_open_interfaces_dict[last_interface_path];
\* line 153: return interface
EvictDel(t) ==
    /\ At(t, "evict_del")
    /\ IF threads[t].last_interface_path \in DOMAIN cache.dict
       THEN cache' = [cache EXCEPT
                        !.dict = Restrict(cache.dict,
                                   DOMAIN cache.dict
                                     \ {threads[t].last_interface_path})]
       ELSE UNCHANGED cache
    /\ Leave(t)
    /\ UNCHANGED handles
    /\ raceFrame

(***************************************************************************)
(* Spec: start-up and lookups of the server                                *)
(***************************************************************************)
NoQuery == [numeric |-> FALSE, lat |-> 0, lng |-> 0]
NoResponse ==
    [latitude |-> 0, longitude |-> 0, elevation |-> None, status |-> "none"]

EngineNew ==
    /\ source_info = <<>>
    /\ all_coords = <<>>
    /\ index_order = <<>>
    /\ cache = EmptyCache
    /\ requested = <<>>
    /\ query = NoQuery
    /\ candidates = <<>>
    /\ adjusted = <<>>
    /\ trace = <<>>
    /\ result = Return(NO_DATA_VALUE)
    /\ response = NoResponse
    /\ previous = <<>>
    /\ threads = [t \in Threads |-> Idle(0)]
    /\ handles = {}
    /\ meta_query = <<>>
    /\ meta_result = <<>>

Init ==
    /\ metadata_files \in EngineMetadata
    /\ tile_files \in TileStates
    /\ summary_file \in {"absent", "present"}
    /\ today = Today0
    /\ always_rebuild = FALSE
    /\ phase = "new"
    /\ mode = "none"
    /\ EngineNew
    /\ prio_meta = <<>>
    /\ prio_result = <<>>

Next ==
    \/ Construct
    \/ ReadSummaryJson
    \/ CreateSummaryJson
    \/ PriorityLookup
    \/ TileLookup

Spec == Init /\ [][Next]_vars

(***************************************************************************)
(* SpecMeta: the metadata registry over every combination of metadata      *)
(* files                                                                   *)
(***************************************************************************)
InitMeta ==
    /\ metadata_files \in [MetaDirs -> FileChoices]
    /\ tile_files = [f \in Tiles |-> Readable(ElevationOf(f))]
    /\ summary_file = "present"
    /\ today = Today0
    /\ always_rebuild = FALSE
    /\ phase = "new"
    /\ mode = "none"
    /\ EngineNew
    /\ prio_meta = <<>>
    /\ prio_result = <<>>

NextMeta == Construct \/ MetadataFor

SpecMeta == InitMeta /\ [][NextMeta]_vars

(***************************************************************************)
(* SpecPrio: the priority annotation over effective records                *)
(***************************************************************************)
Priorities == {0, 2000, 3000}
Resolutions == {30, 250, 1000, 2000}
Dates == {None, <<2006, 1, 24>>, <<2017, 3, 15>>, <<2026, 6, 30>>,
          <<2017, 13, 45>>, <<2023, 2, 29>>, <<2017, 3>>}
DynamicPriorities == {None, <<0>>, <<10>>, <<-5>>}
Todays == {Today0, <<2026, 1, 9>>}

EffectiveRecords ==
    {defaults} \cup
    [priority : Priorities, name : {"src"}, resolution : Resolutions,
     date : Dates, dynamic_priority : DynamicPriorities]

InitPrio ==
    /\ metadata_files = [d \in MetaDirs |-> NoFile]
    /\ tile_files = [f \in Tiles |-> Readable(ElevationOf(f))]
    /\ summary_file = "present"
    /\ today \in Todays
    /\ always_rebuild = FALSE
    /\ phase = "annotate"
    /\ mode = "priority"
    /\ EngineNew
    /\ prio_meta \in EffectiveRecords
    /\ prio_result = <<>>

NextPrio == Annotate

SpecPrio == InitPrio /\ [][NextPrio]_vars

(***************************************************************************)
(* SpecSample: GDALInterface.lookup over band values and points in, on the *)
(* edge of and around the tiles                                            *)
(***************************************************************************)
InitSample ==
    /\ metadata_files = [d \in MetaDirs |-> NoFile]
    /\ \E v \in CellValues : tile_files = [f \in Tiles |-> Readable(v)]
    /\ summary_file = "present"
    /\ today = Today0
    /\ always_rebuild = FALSE
    /\ phase = "sample"
    /\ mode = "nearest"
    /\ EngineNew
    /\ prio_meta = <<>>
    /\ prio_result = <<>>

NextSample == InterfaceLookup

SpecSample == InitSample /\ [][NextSample]_vars

(***************************************************************************)
(* SpecStartup: the start-up of server.py over every state of summary.json *)
(* and both settings of ALWAYS_REBUILD_SUMMARY                             *)
(***************************************************************************)
InitStartup ==
    /\ metadata_files \in EngineMetadata
    /\ tile_files \in TileStates
    /\ summary_file \in {"absent", "present", "corrupt"}
    /\ today = Today0
    /\ always_rebuild \in BOOLEAN
    /\ phase = "new"
    /\ mode = "none"
    /\ EngineNew
    /\ prio_meta = <<>>
    /\ prio_result = <<>>

NextStartup == Construct \/ ReadSummaryJson \/ CreateSummaryJson

SpecStartup == InitStartup /\ [][NextStartup]_vars

(***************************************************************************)
(* SpecCache: any sequence of _open_gdal_interface calls on a new engine   *)
(***************************************************************************)
InitCache ==
    /\ metadata_files = [d \in MetaDirs |-> NoFile]
    /\ tile_files \in TileStates
    /\ summary_file = "present"
    /\ today = Today0
    /\ always_rebuild = FALSE
    /\ phase = "cache"
    /\ mode = "nearest"
    /\ EngineNew
    /\ prio_meta = <<>>
    /\ prio_result = <<>>

NextCache == OpenGdalInterface

SpecCache == InitCache /\ [][NextCache]_vars

(***************************************************************************)
(* SpecRace: two threads of one worker in _open_gdal_interface             *)
(***************************************************************************)
InitRace ==
    /\ metadata_files = [d \in MetaDirs |-> NoFile]
    /\ tile_files \in {t \in TileStates :
                          /\ t[S1].readable
                          /\ \A f \in Tiles : t[f].cell # 32767}
    /\ summary_file = "present"
    /\ today = Today0
    /\ always_rebuild = FALSE
    /\ phase = "race"
    /\ mode = "nearest"
    /\ EngineNew
    /\ prio_meta = <<>>
    /\ prio_result = <<>>

NextRace ==
    \E t \in Threads :
        \/ Call(t)
        \/ TestCached(t)
        \/ HitGet(t)
        \/ HitRemove(t)
        \/ HitAppend(t)
        \/ MissOpen(t)
        \/ MissAppend(t)
        \/ MissSet(t)
        \/ MissLen(t)
        \/ EvictPop(t)
        \/ EvictGet(t)
        \/ EvictClose(t)
        \/ EvictNone(t)
        \/ EvictDel(t)

SpecRace == InitRace /\ [][NextRace]_vars

(***************************************************************************)
(* Properties                                                              *)
(***************************************************************************)
Max(S) == CHOOSE x \in S : \A y \in S : y <= x

\* The directories from d up to the data folder, d included.
ChainOf(d) == {SubSeq(d, 1, k) : k \in Len(tiles_folder)..Len(d)}

\* The directory of the chain of d nearest to d whose metadata.json defines
\* field f, as a one-element set; empty when no file on the chain defines it.
NearestDefining(d, f) ==
    LET reg  == RawRegistry(metadata_files)
        defs == {a \in ChainOf(d) : a \in DOMAIN reg /\ f \in DOMAIN reg[a]}
    IN  {a \in defs : \A b \in defs : Len(b) <= Len(a)}

MetaLoaded == phase = "constructed" /\ mode = "priority"

\* C8: the effective record of a directory that owns a (parsed) metadata
\* file holds, for every field, the value of the nearest directory on its
\* chain to the data folder that defines the field; priority and resolution
\* defined nowhere are 9999 and 2000, and an undefined date or
\* dynamic_priority is null.
C8_NearestWins ==
    MetaLoaded =>
      \A d \in DOMAIN RawRegistry(metadata_files) :
        /\ d \in DOMAIN source_info
        /\ \A f \in {"priority", "resolution", "name", "date",
                     "dynamic_priority"} :
             LET near == NearestDefining(d, f)
             IN  IF near # {}
                 THEN \A a \in near :
                        source_info[d][f] = RawRegistry(metadata_files)[a][f]
                 ELSE /\ f = "priority" => source_info[d][f] = 9999
                      /\ f = "resolution" => source_info[d][f] = 2000
                      /\ f \in {"date", "dynamic_priority"} =>
                           source_info[d][f] = None

\* A three-level chain in which every level defines the resolution, the
\* middle level the priority, and the record of the deepest directory takes
\* its own resolution and the middle level's priority.
C8_Witness ==
    /\ MetaLoaded
    /\ metadata_files[<<"data">>] =
         Parsed([priority |-> 3000, resolution |-> 250,
                 date |-> <<2017, 13, 45>>, dynamic_priority |-> <<-5>>])
    /\ metadata_files[<<"data", "north">>] =
         Parsed([priority |-> 1500, resolution |-> 100])
    /\ metadata_files[<<"data", "north", "arctic">>] =
         Parsed([resolution |-> 32])
    /\ source_info[<<"data", "north", "arctic">>].resolution = 32
    /\ source_info[<<"data", "north", "arctic">>].priority = 1500
    /\ source_info[<<"data", "north", "arctic">>].dynamic_priority = <<-5>>

\* C9: when no metadata file on the chain of a directory defines `name`,
\* the effective name is the directory's basename, and "default" for the
\* data folder itself.
C9_NameIsBasename ==
    MetaLoaded =>
      \A d \in DOMAIN RawRegistry(metadata_files) :
        NearestDefining(d, "name") = {} =>
          source_info[d].name =
            (IF d = tiles_folder THEN "default" ELSE basename(d))

\* The record _effective_metadata_for_file must return: that of the longest
\* prefix of the file's directory that source_info holds, else that of the
\* data folder.
ExpectedMetadataFor(f) ==
    LET dir     == dirname(f)
        present == {k \in 1..Len(dir) : SubSeq(dir, 1, k) \in DOMAIN source_info}
    IN  IF present # {} THEN source_info[SubSeq(dir, 1, Max(present))]
        ELSE source_info[tiles_folder]

\* C10: after start-up the data folder is in the registry, and
\* metadataFor returns, for every tile path, the record of the nearest
\* directory at or above the tile's directory that the registry holds, and
\* the data folder's record when there is none.
C10_MetadataForTotal ==
    MetaLoaded =>
      /\ tiles_folder \in DOMAIN source_info
      /\ meta_query # <<>> =>
           /\ meta_result = ExpectedMetadataFor(meta_query)
           /\ {"priority", "name", "resolution"} \subseteq DOMAIN meta_result

\* A tile two levels below the nearest registered directory resolves to
\* that directory's record, which is not the data folder's.
C10_Witness ==
    /\ MetaLoaded
    /\ meta_query = <<"data", "south", "deep", "s1.tif">>
    /\ <<"data", "south">> \in DOMAIN source_info
    /\ meta_result = source_info[<<"data", "south">>]
    /\ meta_result.priority = 1500
    /\ source_info[tiles_folder].priority = 9999

\* Days from 0001-01-01 to a valid date, by counting whole years and months.
DaysSinceEpoch(s) ==
    LET y == s[1] - 1
        RECURSIVE MonthDays(_)
        MonthDays(m) == IF m = 0 THEN 0
                        ELSE DaysInMonth(s[1], m) + MonthDays(m - 1)
    IN  365 * y + y \div 4 - y \div 100 + y \div 400 + MonthDays(s[2] - 1)
          + s[3]

\* age_in_months of the specification: round((today - date) / 30.4375) for a
\* valid date, 360 for a missing or malformed one.
ExpectedAge(date, now) ==
    IF date # None /\ strptime_ok(date)
    THEN LET delta == DaysSinceEpoch(now) - DaysSinceEpoch(date)
         IN  CHOOSE n \in -1000..1000 :
               2 * (16 * delta - 487 * n) < 487 /\ 2 * (487 * n - 16 * delta) < 487
    ELSE 360

\* C6: the final priority of an effective record is
\* base - (1000 - resolution) - (360 - age) - dynamic_priority when
\* dynamic_priority is present (0 and negative values included) and the base
\* priority unchanged when it is null or absent.
C6_FinalPriority ==
    phase = "annotated" =>
      LET dp == Get(prio_meta, "dynamic_priority")
      IN  IF dp = None
          THEN prio_result.p = Return(prio_meta.priority)
          ELSE prio_result.p =
                 Return(prio_meta.priority - (1000 - prio_meta.resolution)
                        - (360 - ExpectedAge(prio_meta.date, today))
                        - dp[1])

\* dynamic_priority 0 counts as present: 2000 - 970 - 121 - 0.
C6_Witness ==
    /\ phase = "annotated"
    /\ today = Today0
    /\ always_rebuild = FALSE
    /\ prio_meta = [priority |-> 2000, name |-> "src", resolution |-> 30,
                    date |-> <<2006, 1, 24>>, dynamic_priority |-> <<0>>]
    /\ prio_result.p = Return(909)

(***************************************************************************)
(* Properties of the priority lookup                                       *)
(***************************************************************************)
PriorityAnswered ==
    phase = "answered" /\ mode = "priority" /\ query.numeric

\* The candidates in the order the lookup tries them.
TriedOrder ==
    IF Len(candidates) = 1 THEN candidates
    ELSE [i \in 1..Len(adjusted) |-> adjusted[i].candidate]

\* What sampling a tile at the queried point yields; a tile that cannot be
\* opened has no sample and counts as NO_DATA.
TileSample(file) ==
    IF tile_files[file].readable
    THEN gdal_lookup(file, TRUE, tile_files[file].cell, query.lat, query.lng)
    ELSE NO_DATA_VALUE

HasData(file) == TileSample(file) # NO_DATA_VALUE

\* C1: a priority lookup returns the sample of the first candidate, in
\* ascending (finalPriority, resolution) order, whose sample is not NO_DATA,
\* and NO_DATA when there is no candidate or every candidate samples NO_DATA
\* or fails.
C1_FirstCandidateWithData ==
    PriorityAnswered =>
      LET withData == {i \in 1..Len(TriedOrder) : HasData(TriedOrder[i].file)}
      IN  IF withData = {} THEN result = Return(NO_DATA_VALUE)
          ELSE \A i \in withData :
                 (\A j \in withData : i <= j) =>
                   result = Return(TileSample(TriedOrder[i].file))

\* C2: a lookup of either variant never raises to its caller: every call
\* ends by returning an elevation or NO_DATA.
C2_LookupNeverRaises ==
    phase = "answered" => result.kind = "return"

\* C3: when a candidate of a priority lookup cannot be opened, the lookup
\* goes on with the next candidate, so that a later candidate with data at
\* the point, preceded only by candidates without data or that fail, gives
\* the result.
C3_OpenFailureSkipped ==
    PriorityAnswered =>
      \A j \in 1..Len(TriedOrder) :
        ( /\ HasData(TriedOrder[j].file)
          /\ \A i \in 1..(j - 1) : ~HasData(TriedOrder[i].file)
          /\ \E i \in 1..(j - 1) : ~tile_files[TriedOrder[i].file].readable )
        => result = Return(TileSample(TriedOrder[j].file))

\* position of a file in the order tried (0 when it is no candidate)
RankOf(file) ==
    LET at == {i \in 1..Len(TriedOrder) : TriedOrder[i].file = file}
    IN  IF at = {} THEN 0 ELSE Max(at)

\* C4: within one priority lookup the candidates are opened and sampled one
\* at a time in (finalPriority, resolution) order: a candidate is opened or
\* sampled only after every candidate ranked before it was sampled and
\* yielded NO_DATA, a sample follows the open of the same candidate, and
\* nothing is opened or sampled after a sample that is not NO_DATA.
C4_StrictPriorityOrder ==
    PriorityAnswered =>
      \A j \in 1..Len(trace) :
        /\ RankOf(trace[j].file) >= 1
        /\ \A k \in 1..(RankOf(trace[j].file) - 1) :
             \E h \in 1..(j - 1) :
               /\ trace[h] = SampleEvent(TriedOrder[k].file, NO_DATA_VALUE)
        /\ trace[j].op = "sample" =>
             /\ j > 1
             /\ trace[j - 1] = OpenEvent(trace[j].file, TRUE)
        /\ (trace[j].op = "sample" /\ trace[j].elevation # NO_DATA_VALUE) =>
             j = Len(trace)

\* Three candidates of which the second in order has data: the first is
\* opened and sampled, then the second, and the third is never touched.
C4_Witness ==
    /\ PriorityAnswered
    /\ Len(candidates) = 3
    /\ Len(trace) = 4
    /\ trace[2] = SampleEvent(TriedOrder[1].file, NO_DATA_VALUE)
    /\ trace[4].op = "sample"
    /\ trace[4].file = TriedOrder[2].file
    /\ result = Return(trace[4].elevation)
    /\ result.value # NO_DATA_VALUE
    /\ HasData(TriedOrder[3].file)

PositionIn(seq, x) == Max({i \in 1..Len(seq) : seq[i] = x})

\* C5: the resolver's output is a permutation of the candidates, each with
\* its (finalPriority, resolution), ascending by that pair, and candidates
\* with equal pairs keep the order in which the index returned them.
C5_SortedStablePermutation ==
    (PriorityAnswered /\ Len(candidates) >= 2) =>
      /\ Len(adjusted) = Len(candidates)
      /\ {adjusted[i].candidate : i \in 1..Len(adjusted)}
           = {candidates[i] : i \in 1..Len(candidates)}
      /\ \A i \in 1..Len(adjusted) :
           LET m == ExpectedMetadataFor(adjusted[i].candidate.file)
           IN  /\ Return(adjusted[i].p) = final_priority(m, today)
               /\ adjusted[i].r = m.resolution
      /\ \A i, j \in 1..Len(adjusted) :
           i < j =>
             /\ adjusted[i].p <= adjusted[j].p
             /\ adjusted[i].p = adjusted[j].p => adjusted[i].r <= adjusted[j].r
             /\ (adjusted[i].p = adjusted[j].p /\ adjusted[i].r = adjusted[j].r)
                  => PositionIn(candidates, adjusted[i].candidate)
                       < PositionIn(candidates, adjusted[j].candidate)

\* The index returned the root tile first and then the two north tiles,
\* n2 before n1; the north tiles share a pair that ranks before the root's,
\* and the sort moves them to the front, n2 still before n1.
C5_Witness ==
    /\ PriorityAnswered
    /\ Len(candidates) = 3
    /\ candidates[1].file = G /\ candidates[2].file = N2
    /\ candidates[3].file = N1
    /\ adjusted[1].candidate.file = N2 /\ adjusted[2].candidate.file = N1
    /\ adjusted[3].candidate.file = G
    /\ adjusted[1].p = adjusted[2].p /\ adjusted[1].r = adjusted[2].r
    /\ adjusted[2].p < adjusted[3].p

Min(a, b) == IF a < b THEN a ELSE b

\* the last n elements of a sequence
LastN(seq, n) == SubSeq(seq, Len(seq) - n + 1, Len(seq))

\* C11: after any sequence of _open_gdal_interface calls the cache holds at
\* most open_interfaces_size handles, and its paths are the
\* min(open_interfaces_size, number of distinct paths requested) most
\* recently requested distinct paths, the most recent last; the dictionary
\* and the open datasets are those of exactly these paths.  (A call that
\* raises hands back no handle and is no request.)
C11_CacheIsLRU ==
    phase = "cache" =>
      /\ Len(cache.list) <= open_interfaces_size
      /\ cache.list = LastN(requested,
                            Min(open_interfaces_size, Len(requested)))
      /\ DOMAIN cache.dict = {cache.list[i] : i \in 1..Len(cache.list)}
      /\ cache.open = DOMAIN cache.dict

\* More distinct paths requested than the cache holds, one tile of the
\* data folder unreadable, and the last call having returned a handle for
\* the path that is now the newest.
C11_Witness ==
    /\ phase = "cache"
    /\ Len(requested) > open_interfaces_size
    /\ Len(cache.list) = open_interfaces_size
    /\ \E f \in Tiles : ~tile_files[f].readable
    /\ trace = <<OpenEvent(cache.list[Len(cache.list)], TRUE)>>

\* floor(a / b)
FloorDiv(a, b) == IF b > 0 THEN a \div b ELSE (-a) \div (-b)

\* the tile and the band value of the last GDALInterface.lookup
Sampled == trace[Len(trace)].file
SampledCell == tile_files[Sampled].cell

\* the pixel of the last GDALInterface.lookup lies inside the raster, the
\* pixel being the floor of the inverse-geotransformed coordinates
InRaster ==
    LET gt   == GeoOf(Sampled)
        xpix == FloorDiv(query.lng - gt.ulx, gt.xres)
        ylin == FloorDiv(query.lat - gt.uly, gt.yres)
    IN  /\ 0 <= xpix /\ xpix < gt.RasterXSize
        /\ 0 <= ylin /\ ylin < gt.RasterYSize

InterfaceAnswered == phase = "sample" /\ trace # <<>>

\* C12: for a point inside the raster whose cell holds v, the sample is
\* NO_DATA (-9999) when v is one of -32768, -9999, -99999, 32767, 65535 or
\* v < -10000 or v > 90000, and v itself otherwise.
C12_SentinelMapping ==
    (InterfaceAnswered /\ InRaster) =>
      result = Return(IF \/ SampledCell \in {-32768, -9999, -99999, 32767, 65535}
                         \/ SampledCell < -10000
                         \/ SampledCell > 90000
                      THEN -9999
                      ELSE SampledCell)

\* A cell one above the upper threshold, sampled inside the raster, gave
\* NO_DATA.
C12_Witness ==
    /\ InterfaceAnswered /\ InRaster
    /\ SampledCell = UnrealisticHigh + 1
    /\ result = Return(NO_DATA_VALUE)

\* C13: a cell whose raw value is -32768, sampled inside the raster, is
\* mapped to sea level 0.
C13_LegacySeaLevel ==
    (InterfaceAnswered /\ InRaster /\ SampledCell = -32768) =>
      result = Return(0)

\* C18: the pixel indices are the floor of the inverse-geotransformed
\* coordinates, and a floored column or row below 0 or at or beyond the
\* raster size yields NO_DATA; so does a point whose fractional pixel
\* coordinate lies strictly between -1 and 0.
C18_FloorOutOfBounds ==
    (InterfaceAnswered /\ ~InRaster) => result = Return(NO_DATA_VALUE)

IndexBuilt == phase \in {"serving", "answered"}

\* C14: once the index is built from a summary of n tile records, the
\* records carry the index ids 1, 2, ..., n in insertion order, so no two
\* entries of the index share an id.
C14_IndexIdsSequential ==
    IndexBuilt =>
      /\ \A i \in 1..Len(all_coords) : all_coords[i].index_id = i
      /\ \A i, j \in 1..Len(all_coords) :
           i # j => all_coords[i].index_id # all_coords[j].index_id

\* C15: the response of get_elevation never carries the sentinel -9999 as
\* its elevation: when the engine returns NO_DATA the elevation is null and
\* the status 'no_data', and the status 'ok' comes only with the engine's
\* elevation, which is not the sentinel.
C15_NoSentinelInResponse ==
    phase = "answered" =>
      /\ response.elevation # <<NO_DATA_VALUE>>
      /\ result = Return(NO_DATA_VALUE)
           => response.elevation = None /\ response.status = "no_data"
      /\ response.status = "ok"
           => /\ result.kind = "return"
              /\ result.value # NO_DATA_VALUE
              /\ response.elevation = <<result.value>>

\* The engine sampled a tile, found no data and returned NO_DATA, and the
\* response is the null elevation with status 'no_data'.
C15_Witness ==
    /\ phase = "answered"
    /\ trace # <<>> /\ trace[Len(trace)].op = "sample"
    /\ result = Return(NO_DATA_VALUE)
    /\ response.elevation = None /\ response.status = "no_data"

\* C16: whether summary.json is corrupt, absent or to be rebuilt always,
\* the start-up rebuilds the summary from the data folder and builds the
\* index from it: the start-up fails only over a tile that cannot be
\* opened, never over the summary, and a server that serves has a parsable
\* summary and the index of the tiles of the data folder.
C16_CorruptSummaryRebuilt ==
    /\ phase = "failed" => \E f \in Tiles : ~tile_files[f].readable
    /\ phase = "serving"
         => /\ summary_file = "present"
            /\ Len(all_coords) = Len(AllFiles)
            /\ \A i \in 1..Len(AllFiles) : all_coords[i].file = AllFiles[i]

\* a latitude outside [-90, 90] or a longitude outside [-180, 180] degrees
OutOfRange(q) ==
    /\ q.numeric
    /\ \/ q.lat < -MaxLat \/ q.lat > MaxLat
       \/ q.lng < -MaxLng \/ q.lng > MaxLng

\* C17: a lookup, of the priority variant or of the nearest-tile variant,
\* for a point whose latitude is outside [-90, 90] or whose longitude is
\* outside [-180, 180] returns NO_DATA and raises nothing.
C17_OutOfRangeNoData ==
    (phase = "answered" /\ OutOfRange(query)) => result = Return(NO_DATA_VALUE)

\* C19: a lookup leaves the index payloads (no field added or changed) and
\* the metadata registry as they were, the final priorities living in the
\* lookup's adjusted list only; hence _effective_metadata_for_file gives
\* the same record for a path before and after any number of lookups.
C19_LookupFrame ==
    [][phase' = "answered" =>
         /\ all_coords' = all_coords
         /\ source_info' = source_info
         /\ mode = "priority"
              => \A f \in QueryFiles :
                   effective_metadata_for_file(f, source_info')
                     = effective_metadata_for_file(f, source_info)]_vars

\* A priority lookup has ranked several candidates, one of them by a final
\* priority that differs from the base priority of its metadata, and the
\* payloads carry the fields of the summary and the index id only.
C19_Witness ==
    /\ PriorityAnswered
    /\ Len(adjusted) >= 2
    /\ \E i \in 1..Len(adjusted) :
         adjusted[i].p
           # effective_metadata_for_file(adjusted[i].candidate.file,
                                         source_info).priority
    /\ \A k \in 1..Len(all_coords) :
         DOMAIN all_coords[k] = {"file", "coords", "source_dir", "index_id"}

\* C20: two consecutive lookups at the same point on one engine return the
\* same elevation, whatever the capacity of the cache and whatever hits,
\* misses and evictions the first of them and the lookups before it made.
C20_RepeatableLookup ==
    (phase = "answered" /\ previous # <<>>) => previous = <<result>>

\* A priority lookup that opened more tiles than the cache holds, so that
\* it evicted, found an elevation, and repeats the lookup before it.
C20_Witness ==
    /\ PriorityAnswered
    /\ previous # <<>>
    /\ result.value # NO_DATA_VALUE
    /\ Cardinality({i \in 1..Len(trace) : trace[i].op = "open"})
         > open_interfaces_size

\* the path of the last _open_gdal_interface call and whether it returned
Requested == trace[1].file
Returned == trace[1].ok

\* C21: in every state reached by sequential _open_gdal_interface calls a
\* dataset is open exactly when its path is in the cache.  A call that
\* returns hands back an open handle; it closes the handle of the least
\* recently requested path, and only that one, exactly when it misses on a
\* full cache, and never the handle it returns; every other handle stays as
\* it was.
C21_OpenIffCached ==
    /\ [](phase = "cache" =>
            /\ cache.open = {cache.list[i] : i \in 1..Len(cache.list)}
            /\ cache.open = DOMAIN cache.dict)
    /\ [][(phase = "cache" /\ Returned') =>
            LET closed == cache.open \ cache'.open
            IN  /\ Requested' \in cache'.open
                /\ Requested' \notin closed
                /\ closed = IF /\ Requested' \notin cache.open
                               /\ Len(cache.list) = open_interfaces_size
                            THEN {Head(cache.list)}
                            ELSE {}
                /\ cache'.open = (cache.open \cup {Requested'}) \ closed]_vars

\* The last call missed on a full cache and returned: its path is cached
\* and open, and a path requested earlier is no longer open.
C21_Witness ==
    /\ phase = "cache"
    /\ trace # <<>> /\ Returned
    /\ Len(cache.list) = open_interfaces_size
    /\ Requested = cache.list[Len(cache.list)]
    /\ Requested \in cache.open
    /\ \E i \in 1..Len(requested) : requested[i] \notin cache.open

\* C23: when _open_gdal_interface misses and opening the raster fails, the
\* cache is left as it was: the path is not entered, the order of the list
\* is unchanged, and no cached handle is evicted or closed.
C23_FailedOpenLeavesCache ==
    [][(phase = "cache" /\ ~Returned') =>
         /\ cache' = cache
         /\ Requested' \notin DOMAIN cache'.dict
         /\ \A i \in 1..Len(cache'.list) : cache'.list[i] # Requested']_vars

\* The last call failed to open its raster while the cache was full.
C23_Witness ==
    /\ phase = "cache"
    /\ trace # <<>> /\ ~Returned
    /\ ~tile_files[Requested].readable
    /\ Len(cache.list) = open_interfaces_size
    /\ cache.open = {cache.list[i] : i \in 1..Len(cache.list)}

\* no thread is inside _open_gdal_interface
Quiescent == phase = "race" /\ \A t \in Threads : threads[t].pc = "idle"

NoDuplicates(list) ==
    \A i, j \in 1..Len(list) : i # j => list[i] # list[j]

\* once the calls are complete the list and the dictionary name the same
\* paths, the list without duplicates, every open interface is one the
\* dictionary holds, and at most open_interfaces_size interfaces are open
QuiescentCacheConsistent ==
    Quiescent
      => /\ NoDuplicates(cache.list)
         /\ {cache.list[i] : i \in 1..Len(cache.list)} = DOMAIN cache.dict
         /\ handles = {cache.dict[p] : p \in DOMAIN cache.dict}
         /\ Cardinality(handles) <= open_interfaces_size

\* once the calls are complete the list holds no path twice
QuiescentNoDuplicates == Quiescent => NoDuplicates(cache.list)

\* C22: the _open_gdal_interface calls of two interleaved lookups of one
\* worker exclude each other, so that once the calls are complete the list
\* and the dictionary name the same paths, the list without duplicates, no
\* opened interface is left un-closed outside the cache, and at most
\* open_interfaces_size interfaces are open.
C22_GuardedCache ==
    /\ phase = "race"
         => Cardinality({t \in Threads : threads[t].pc # "idle"}) <= 1
    /\ QuiescentCacheConsistent
====
